---- MODULE Spec2Model ----
(***************************************************************************)
(* RSA in plain python: key generation (RSA.py, keyGen with its nested     *)
(* randBelow, IsPrime/millerTest, getBigPrime and eea), the transform      *)
(* pow(m, x, n), and the worked example of RSAmaths.py.                    *)
(*                                                                         *)
(* Python integers are unbounded.  Values that stay below 2^30 in every    *)
(* run considered here (prime candidates, witnesses, the public exponent)  *)
(* are plain integers; the values that do not (n = p*q, the totient u, the *)
(* Euclid coefficients, the private exponent d) are sign/magnitude numbers *)
(* [neg, mag] with mag a little-endian sequence of 10-bit limbs.           *)
(***************************************************************************)
EXTENDS Integers, Sequences, FiniteSets, TLC

VARIABLES
    rand,        \* the outcomes os.urandom may produce in this run (as integers)
    pc,          \* position in the program
    ctx,         \* who called IsPrime: "p", "q" (getBigPrime), "e" (keyGen), "test"
    keySize,     \* keyGen's argument
    nBits,       \* getBigPrime's argument
    first,       \* the integer getBigPrime drew (line 130)
    cand,        \* IsPrime's argument n (getBigPrime's n, or keyGen's e)
    k,           \* IsPrime: number of rounds
    dd,          \* IsPrime: odd part d of n-1
    i,           \* IsPrime: rounds passed so far
    a,           \* millerTest: the witness of the last round
    res,         \* IsPrime's return value
    p, q,        \* keyGen: the two primes
    n, u,        \* keyGen: modulus and totient (sign/magnitude)
    e,           \* keyGen: public exponent
    d,           \* keyGen: eea's result, <<>> for None, <<x>> for x
    m,           \* RSAmaths: the message
    cyphertext,  \* RSAmaths: m**e % n
    mRx          \* RSAmaths: cyphertext**d % n

vars == <<rand, pc, ctx, keySize, nBits, first, cand, k, dd, i, a, res,
          p, q, n, u, e, d, m, cyphertext, mRx>>

----------------------------------------------------------------------------
(* Bounds of the model *)

\* keyGen runs: os.urandom yields 0..MaxRandKey and the values of RandExtra
MaxRandKey == 15
\* IsPrime runs: os.urandom yields 0..MaxRandTest
MaxRandTest == 100
\* IsPrime runs: the arguments tried are 0..MaxN
MaxN == 100
\* eea runs: a in 0..MaxA, u in 2..MaxU
MaxA == 24
MaxU == 24
\* messages tried in a round trip: 0..MaxMsg
MaxMsg == 3
\* RSAmaths runs: the messages tried are 1..MaxMathsMsg, 1165 and 6789
MaxMathsMsg == 12

(* Program constants *)
KEY_SIZE == 1024

----------------------------------------------------------------------------
(* Python's int: magnitudes, little-endian sequences of limbs below Base,   *)
(* the last limb not 0 (so 0 is the empty sequence)                         *)

LimbBits == 10
Base == 2^LimbBits
MaxInt == 2^30 + (2^30 - 1)

Min(x, y) == IF x < y THEN x ELSE y
Max(x, y) == IF x < y THEN y ELSE x
Abs(x) == IF x < 0 THEN -x ELSE x

RECURSIVE MagNorm(_)
MagNorm(mg) ==
    IF mg = <<>> THEN <<>>
    ELSE IF mg[Len(mg)] = 0 THEN MagNorm(SubSeq(mg, 1, Len(mg) - 1))
    ELSE mg

RECURSIVE MagFromNat(_)
MagFromNat(x) ==
    IF x = 0 THEN <<>> ELSE <<x % Base>> \o MagFromNat(x \div Base)

\* for magnitudes below 2^31
RECURSIVE MagToNat(_)
MagToNat(mg) ==
    IF mg = <<>> THEN 0 ELSE mg[1] + Base * MagToNat(Tail(mg))

Limb(mg, j) == IF j <= Len(mg) THEN mg[j] ELSE 0

RECURSIVE MagCmpAt(_, _, _)
MagCmpAt(x, y, j) ==
    IF j = 0 THEN 0
    ELSE IF x[j] # y[j] THEN (IF x[j] < y[j] THEN -1 ELSE 1)
    ELSE MagCmpAt(x, y, j - 1)

\* -1, 0, 1 as x < y, x = y, x > y
MagCmp(x, y) ==
    IF Len(x) # Len(y) THEN (IF Len(x) < Len(y) THEN -1 ELSE 1)
    ELSE MagCmpAt(x, y, Len(x))

RECURSIVE MagAddC(_, _, _, _)
MagAddC(x, y, j, c) ==
    IF j > Max(Len(x), Len(y)) THEN (IF c = 0 THEN <<>> ELSE <<c>>)
    ELSE LET s == Limb(x, j) + Limb(y, j) + c
         IN  <<s % Base>> \o MagAddC(x, y, j + 1, s \div Base)

MagAdd(x, y) == MagAddC(x, y, 1, 0)

RECURSIVE MagSubC(_, _, _, _)
MagSubC(x, y, j, br) ==
    IF j > Len(x) THEN <<>>
    ELSE LET s == Limb(x, j) - Limb(y, j) - br
         IN  IF s < 0 THEN <<s + Base>> \o MagSubC(x, y, j + 1, 1)
             ELSE <<s>> \o MagSubC(x, y, j + 1, 0)

\* x - y for x >= y
MagSub(x, y) == MagNorm(MagSubC(x, y, 1, 0))

RECURSIVE MagMulSmallC(_, _, _, _)
MagMulSmallC(x, y, j, c) ==
    IF j > Len(x) THEN (IF c = 0 THEN <<>> ELSE <<c>>)
    ELSE LET s == x[j] * y + c
         IN  <<s % Base>> \o MagMulSmallC(x, y, j + 1, s \div Base)

\* x * y for 0 <= y <= Base
MagMulSmall(x, y) == MagNorm(MagMulSmallC(x, y, 1, 0))

ShiftLimb(mg) == IF mg = <<>> THEN <<>> ELSE <<0>> \o mg

RECURSIVE MagMul(_, _)
MagMul(x, y) ==
    IF x = <<>> \/ y = <<>> THEN <<>>
    ELSE MagAdd(MagMulSmall(x, y[1]), ShiftLimb(MagMul(x, Tail(y))))

\* one digit of a long division: the t with t*y <= r < (t+1)*y, for r < Base*y.
\* t lies between the quotients of the leading limbs of r by those of y
\* rounded up and down.
DivDigit(r, y) ==
    IF Len(y) = 1 THEN MagToNat(r) \div y[1]
    ELSE LET sh == Len(y) - 2
             yt == MagToNat(SubSeq(y, sh + 1, Len(y)))
             rt == IF Len(r) <= sh THEN 0 ELSE MagToNat(SubSeq(r, sh + 1, Len(r)))
             lo == rt \div (yt + 1)
             hi == Min((rt + 1) \div yt, Base - 1)
         IN  CHOOSE t \in lo..hi :
                 /\ MagCmp(MagMulSmall(y, t), r) <= 0
                 /\ MagCmp(r, MagMulSmall(y, t + 1)) < 0

\* the division step for limb x[j], after the limbs above it gave prev
DivLimb(prev, x, y, j) ==
    LET r == MagNorm(<<x[j]>> \o prev[2])
        t == DivDigit(r, y)
    IN  <<MagNorm(<<t>> \o prev[1]), MagSub(r, MagMulSmall(y, t))>>

\* long division of (x without its limbs below j) by y: <<quotient, remainder>>
RECURSIVE MagDivFrom(_, _, _)
MagDivFrom(x, y, j) ==
    IF j > Len(x) THEN <<(<<>>), (<<>>)>>
    ELSE CHOOSE r \in {DivLimb(prev, x, y, j) : prev \in {MagDivFrom(x, y, j + 1)}} : TRUE

\* <<x // y, x % y>> for y > 0
MagDivMod(x, y) ==
    IF Len(x) <= 3 /\ Len(y) <= 3
    THEN <<MagFromNat(MagToNat(x) \div MagToNat(y)), MagFromNat(MagToNat(x) % MagToNat(y))>>
    ELSE MagDivFrom(x, y, 1)

----------------------------------------------------------------------------
(* Python's int: signed numbers [neg, mag] *)

BigMk(neg, mg) == [neg |-> neg /\ mg # <<>>, mag |-> mg]
Big(x) == BigMk(x < 0, MagFromNat(Abs(x)))
BigToInt(x) == IF x.neg THEN -MagToNat(x.mag) ELSE MagToNat(x.mag)
BigNeg(x) == BigMk(~x.neg, x.mag)
BigPos(x) == ~x.neg /\ x.mag # <<>>

BigAdd(x, y) ==
    IF x.neg = y.neg THEN BigMk(x.neg, MagAdd(x.mag, y.mag))
    ELSE IF MagCmp(x.mag, y.mag) >= 0 THEN BigMk(x.neg, MagSub(x.mag, y.mag))
    ELSE BigMk(y.neg, MagSub(y.mag, x.mag))

BigSub(x, y) == BigAdd(x, BigNeg(y))
BigMul(x, y) == BigMk(x.neg # y.neg, MagMul(x.mag, y.mag))

\* x // y and x % y for y > 0 (Python: floor division, remainder in [0, y))
BigFloorDiv(x, y) ==
    LET qr == MagDivMod(x.mag, y.mag)
    IN  IF ~x.neg THEN BigMk(FALSE, qr[1])
        ELSE IF qr[2] = <<>> THEN BigMk(TRUE, qr[1])
        ELSE BigMk(TRUE, MagAdd(qr[1], <<1>>))

BigMod(x, y) ==
    LET qr == MagDivMod(x.mag, y.mag)
    IN  IF ~x.neg \/ qr[2] = <<>> THEN BigMk(FALSE, qr[2])
        ELSE BigMk(FALSE, MagSub(y.mag, qr[2]))

\* pow(b, x, md) for x >= 0, md > 0, by squaring, from the top bit of x down.
\* PowBit: one bit; PowLimb: the bits b..LimbBits-1 of one limb;
\* BigPowFrom: the limbs j.. of the exponent.
PowBit(acc, b, bit, md) ==
    LET sq == BigMod(BigMul(acc, acc), md)
    IN  IF bit = 1 THEN BigMod(BigMul(sq, b), md) ELSE sq

RECURSIVE PowLimb(_, _, _, _, _)
PowLimb(acc, b, limb, bt, md) ==
    IF bt >= LimbBits THEN acc
    ELSE CHOOSE r \in {PowBit(prev, b, (limb \div 2^bt) % 2, md) :
                       prev \in {PowLimb(acc, b, limb, bt + 1, md)}} : TRUE

RECURSIVE BigPowFrom(_, _, _, _)
BigPowFrom(b, xmag, j, md) ==
    IF j > Len(xmag) THEN BigMod(Big(1), md)
    ELSE CHOOSE r \in {PowLimb(prev, b, xmag[j], 0, md) :
                       prev \in {BigPowFrom(b, xmag, j + 1, md)}} : TRUE

BigPow(b, x, md) == BigPowFrom(b, x.mag, 1, md)

----------------------------------------------------------------------------
(* Python's int: values below 2^29 *)

\* (x * y) % md for 0 <= x, y < md < 2^29, without a product above 2^31
RECURSIVE MulMod(_, _, _)
MulMod(x, y, md) ==
    LET c == MaxInt \div (2 * md)
    IN  IF y <= c THEN (x * y) % md
        ELSE (MulMod(x, y \div c, md) * c + x * (y % c)) % md

\* pow(b, x, md)
RECURSIVE PowMod(_, _, _)
PowMod(b, x, md) ==
    IF x = 0 THEN 1 % md
    ELSE CHOOSE r \in {IF x % 2 = 1 THEN MulMod(MulMod(h, h, md), b % md, md)
                                    ELSE MulMod(h, h, md) :
                       h \in {PowMod(b, x \div 2, md)}} : TRUE

\* number of digits of x >= 0 in a base: len(bin(x))-2, len(hex(x))-2, len(str(x))
RECURSIVE NumDigits(_, _)
NumDigits(x, base) == IF x < base THEN 1 ELSE 1 + NumDigits(x \div base, base)

----------------------------------------------------------------------------
(* RSA.py: supporting functions *)

None == <<>>
Some(x) == <<x>>

\* bitLen(n) = len(bin(n))-2; bytLen(n) = (len(hex(n))-1)//2, len(hex(n)) counting "0x"
bitLen(x) == (NumDigits(x, 2) + 2) - 2
bytLen(x) == ((NumDigits(x, 16) + 2) - 1) \div 2

\* randBytes(cnt), read as a big-endian integer: the outcomes of this run that
\* fit in cnt bytes (every outcome considered is below 2^30)
RandBytes(cnt) ==
    IF cnt >= 4 THEN rand ELSE {r \in rand : r < 256^cnt}

\* randBelow(n) once randBytes(bytLen(n)) gave rnd: while rnd > n: rnd >>= 1
RECURSIVE randBelow(_, _)
randBelow(rnd, x) == IF rnd > x THEN randBelow(rnd \div 2, x) ELSE rnd

\* as MillerLoop, returning True where the loop runs out
RECURSIVE MillerLoop_endTrue(_, _, _)
MillerLoop_endTrue(x, dv, nn) ==
    IF dv = nn - 1 THEN TRUE
    ELSE CHOOSE r \in {IF x2 = 1 THEN FALSE
                       ELSE IF x2 = nn - 1 THEN TRUE
                       ELSE MillerLoop_endTrue(x2, dv * 2, nn) :
                       x2 \in {MulMod(x, x, nn)}} : TRUE

\* millerTest(d, n) once its witness a is drawn: the while loop on (x, d)
RECURSIVE MillerLoop(_, _, _)
MillerLoop(x, dv, nn) ==
    IF dv = nn - 1 THEN FALSE
    ELSE CHOOSE r \in {IF x2 = 1 THEN FALSE
                       ELSE IF x2 = nn - 1 THEN TRUE
                       ELSE MillerLoop(x2, dv * 2, nn) :
                       x2 \in {MulMod(x, x, nn)}} : TRUE

\* as millerTest, without the test x == n-1 before the loop
millerTest_noMinusOne(w, dv, nn) ==
    LET x == PowMod(w, dv, nn)
    IN  IF x = 1 THEN TRUE ELSE MillerLoop(x, dv, nn)

millerTest(w, dv, nn) ==
    LET x == PowMod(w, dv, nn)
    IN  IF x = 1 \/ x = nn - 1 THEN TRUE ELSE MillerLoop(x, dv, nn)

\* IsPrime: k = min(int(len(str(n))/5)+4, 64)
Rounds(x) == Min((NumDigits(x, 10) \div 5) + 4, 64)

\* IsPrime: d = n - 1; while (d % 2 == 0): d //= 2
RECURSIVE OddPart(_)
OddPart(x) == IF x % 2 = 0 THEN OddPart(x \div 2) ELSE x

\* x | 1
Or1(x) == IF x % 2 = 0 THEN x + 1 ELSE x

\* eea: one pass of the while loop over (a, b, cd)
EeaStep(st) ==
    LET qt  == BigFloorDiv(st.a, st.b)
        rm  == BigMod(st.a, st.b)
        new == <<BigSub(st.cd[1][1], BigMul(qt, st.cd[2][1])),
                 BigSub(st.cd[1][2], BigMul(qt, st.cd[2][2]))>>
        cd2 == [st.cd EXCEPT ![3] = new]
        cd0 == [cd2 EXCEPT ![1] = cd2[2]]
        cd1 == [cd0 EXCEPT ![2] = cd0[3]]
    IN  [a |-> st.b, b |-> rm, cd |-> cd1]

RECURSIVE EeaLoop(_)
EeaLoop(st) ==
    IF ~BigPos(st.b) THEN st
    ELSE CHOOSE r \in {EeaLoop(nx) : nx \in {EeaStep(st)}} : TRUE

\* eea's state when its loop ends
EeaRun(ex, ux) ==
    EeaLoop([a |-> ex, b |-> ux,
             cd |-> <<(<<Big(1), Big(0)>>), (<<Big(0), Big(1)>>), (<<Big(0), Big(0)>>)>>])

\* as eea, returning cd[0][0] as it is
eea_noMod(ex, ux) ==
    LET fin == EeaRun(ex, ux)
    IN  IF fin.a # Big(1) THEN None ELSE Some(fin.cd[1][1])

\* as eea, returning the other coefficient
eea_otherCoeff(ex, ux) ==
    LET fin == EeaRun(ex, ux)
    IN  IF fin.a # Big(1) THEN None ELSE Some(BigMod(fin.cd[1][2], ux))

eea(ex, ux) ==
    LET fin == EeaRun(ex, ux)
    IN  IF fin.a # Big(1) THEN None ELSE Some(BigMod(fin.cd[1][1], ux))

----------------------------------------------------------------------------
(* RSA.py: keyGen as a state machine.  A step ends where the program draws  *)
(* from os.urandom or returns from IsPrime.                                 *)

\* key sizes asked for: the default, and MAIN's keyGen(2048)
KeySizes == {1024, 2048}

\* outcomes of os.urandom beyond 0..MaxRandKey: 917519 and 786469 are primes
\* p, q with 65537 | p-1 and 65539 | q-1; 188 + 2 is a strong liar of 65541
RandExtra == {188, 786469, 917519}

Init ==
    /\ rand = (0..MaxRandKey) \cup RandExtra
    /\ pc = "keyGen"
    /\ ctx = "none"
    /\ keySize \in KeySizes
    /\ nBits = 0 /\ first = 0 /\ cand = 0
    /\ k = 0 /\ dd = 0 /\ i = 0 /\ a = 0 /\ res = FALSE
    /\ p = 0 /\ q = 0 /\ n = Big(0) /\ u = Big(0) /\ e = 0 /\ d = None
    /\ m = 0 /\ cyphertext = Big(0) /\ mRx = Big(0)

\* p = getBigPrime((KEY_SIZE//2)+1): the call
keyGen ==
    /\ pc = "keyGen"
    /\ nBits' = (KEY_SIZE \div 2) + 1
    /\ ctx' = "p"
    /\ pc' = "getBigPrime"
    /\ UNCHANGED <<rand, keySize, first, cand, k, dd, i, a, res, p, q, n, u, e, d,
                   m, cyphertext, mRx>>

\* n = int.from_bytes(randBytes(nBits//8), 'big') | 1, and the first IsPrime(n)
getBigPrime ==
    /\ pc = "getBigPrime"
    /\ \E r \in RandBytes(nBits \div 8) :
          /\ first' = Or1(r)
          /\ cand' = Or1(r)
    /\ pc' = "IsPrime"
    /\ UNCHANGED <<rand, ctx, keySize, nBits, k, dd, i, a, res, p, q, n, u, e, d,
                   m, cyphertext, mRx>>

\* IsPrime(n) up to its loop of rounds
IsPrime ==
    /\ pc = "IsPrime"
    /\ k' = Rounds(cand)
    /\ i' = 0
    /\ a' = 0
    /\ IF cand <= 3 THEN
          /\ res' = (cand > 1)
          /\ pc' = "ret"
          /\ dd' = 0
       ELSE IF cand % 2 = 0 THEN
          /\ res' = FALSE
          /\ pc' = "ret"
          /\ dd' = 0
       ELSE
          /\ dd' = OddPart(cand - 1)
          /\ pc' = "round"
          /\ res' = res
    /\ UNCHANGED <<rand, ctx, keySize, nBits, first, cand, p, q, n, u, e, d,
                   m, cyphertext, mRx>>

\* one round: if millerTest(d, n) == False: return False; after k rounds return True
MillerRound ==
    /\ pc = "round"
    /\ \E r \in RandBytes(bytLen(cand - 4)) :
          LET w == 2 + randBelow(r, cand - 4)
          IN  /\ a' = w
              /\ IF millerTest(w, dd, cand)
                 THEN /\ i' = i + 1
                      /\ res' = (i + 1 = k)
                      /\ pc' = IF i + 1 = k THEN "ret" ELSE "round"
                 ELSE /\ i' = i
                      /\ res' = FALSE
                      /\ pc' = "ret"
    /\ UNCHANGED <<rand, ctx, keySize, nBits, first, cand, k, dd, p, q, n, u, e, d,
                   m, cyphertext, mRx>>

\* getBigPrime: while not IsPrime(n): n += 2
getBigPrimeNext ==
    /\ pc = "ret"
    /\ ctx \in {"p", "q"}
    /\ ~res
    /\ cand' = cand + 2
    /\ pc' = "IsPrime"
    /\ UNCHANGED <<rand, ctx, keySize, nBits, first, k, dd, i, a, res, p, q, n, u, e, d,
                   m, cyphertext, mRx>>

\* p = ... returns; q = getBigPrime((KEY_SIZE//2)-1): the call
getBigPrimeReturnP ==
    /\ pc = "ret"
    /\ ctx = "p"
    /\ res
    /\ p' = cand
    /\ nBits' = (KEY_SIZE \div 2) - 1
    /\ ctx' = "q"
    /\ pc' = "getBigPrime"
    /\ UNCHANGED <<rand, keySize, first, cand, k, dd, i, a, res, q, n, u, e, d,
                   m, cyphertext, mRx>>

\* q = ... returns; n = p * q; u = (p - 1) * (q - 1); e = 65537
getBigPrimeReturnQ ==
    /\ pc = "ret"
    /\ ctx = "q"
    /\ res
    /\ q' = cand
    /\ n' = BigMul(Big(p), Big(cand))
    /\ u' = BigMul(Big(p - 1), Big(cand - 1))
    /\ e' = 65537
    /\ ctx' = "e"
    /\ pc' = "eLoop"
    /\ UNCHANGED <<rand, keySize, nBits, first, cand, k, dd, i, a, res, p, d,
                   m, cyphertext, mRx>>

\* while (u % e == 0) or (not IsPrime(e)): the first test, and the call of IsPrime
eLoop ==
    /\ pc = "eLoop"
    /\ IF BigMod(u, Big(e)) = Big(0)
       THEN /\ e' = e + 2
            /\ UNCHANGED <<pc, cand>>
       ELSE /\ cand' = e
            /\ pc' = "IsPrime"
            /\ e' = e
    /\ UNCHANGED <<rand, ctx, keySize, nBits, first, k, dd, i, a, res, p, q, n, u, d,
                   m, cyphertext, mRx>>

\* IsPrime(e) returns: e += 2, or d = eea(e, u) and return (n, e, d)
eLoopReturn ==
    /\ pc = "ret"
    /\ ctx = "e"
    /\ IF ~res
       THEN /\ e' = e + 2
            /\ pc' = "eLoop"
            /\ d' = d
       ELSE /\ d' = eea(Big(e), u)
            /\ pc' = "done"
            /\ e' = e
    /\ UNCHANGED <<rand, ctx, keySize, nBits, first, cand, k, dd, i, a, res, p, q, n, u,
                   m, cyphertext, mRx>>

Next ==
    \/ keyGen
    \/ getBigPrime
    \/ IsPrime
    \/ MillerRound
    \/ getBigPrimeNext
    \/ getBigPrimeReturnP
    \/ getBigPrimeReturnQ
    \/ eLoop
    \/ eLoopReturn

Spec == Init /\ [][Next]_vars

----------------------------------------------------------------------------
(* Properties of keyGen *)

BigLess(x, y) == BigPos(BigSub(y, x))

RECURSIVE GcdEuclid(_, _)
GcdEuclid(x, y) == IF y = 0 THEN x ELSE GcdEuclid(y, x % y)

\* pow(pow(mm, x, n), y, n) == mm
RoundTrip(mm, x, y, md) == BigPow(BigPow(Big(mm), x, md), y, md) = Big(mm)

\* C1: every triple (n, e, d) keyGen returns has a d, and for every message
\* 0 <= m < n, decrypting with e what was encrypted with d gives m back, and
\* the other way round.
C1_RoundTrip ==
    pc = "done" =>
        /\ d # None
        /\ \A mm \in 0..MaxMsg :
               BigLess(Big(mm), n) =>
                   /\ RoundTrip(mm, d[1], Big(e), n)
                   /\ RoundTrip(mm, Big(e), d[1], n)

\* C3: for every triple keyGen returns, n == p*q, gcd(e, u) == 1 and
\* (d * e) mod u == 1, with u = (p-1)*(q-1).
C3_KeyInvariants ==
    pc = "done" =>
        /\ n = BigMul(Big(p), Big(q))
        /\ GcdEuclid(e, BigToInt(BigMod(BigMul(Big(p - 1), Big(q - 1)), Big(e)))) = 1
        /\ d # None
        /\ BigMod(BigMul(d[1], Big(e)), BigMul(Big(p - 1), Big(q - 1))) = Big(1)

\* C4: keyGen(keySize) asks getBigPrime for keySize//2 + 1 bits, then for
\* keySize//2 - 1 bits.
C4_HonoursKeySize ==
    pc = "getBigPrime" =>
        /\ ctx = "p" => nBits = (keySize \div 2) + 1
        /\ ctx = "q" => nBits = (keySize \div 2) - 1

\* C5: keyGen never returns a triple whose d is None (it would have drawn new
\* primes and tried again).
C5_NeverNone ==
    pc = "done" => d # None

\* C9: the integer getBigPrime(nBits) draws, and the one it returns, are odd
\* and of bit length exactly nBits.
C9_PrimeSize ==
    /\ (ctx \in {"p", "q"} /\ pc # "getBigPrime") =>
           (first % 2 = 1 /\ bitLen(first) = nBits)
    /\ (ctx \in {"p", "q"} /\ pc = "ret" /\ res) =>
           (cand % 2 = 1 /\ bitLen(cand) = nBits)

\* C10: the two values keyGen gets from getBigPrime differ.
C10_Distinct ==
    ctx = "e" => p # q

----------------------------------------------------------------------------
(* IsPrime on its own: every argument 0..MaxN, every witness *)

InitPrime ==
    /\ rand = 0..MaxRandTest
    /\ pc = "IsPrime"
    /\ ctx = "test"
    /\ cand \in 0..MaxN
    /\ keySize = 0 /\ nBits = 0 /\ first = 0
    /\ k = 0 /\ dd = 0 /\ i = 0 /\ a = 0 /\ res = FALSE
    /\ p = 0 /\ q = 0 /\ n = Big(0) /\ u = Big(0) /\ e = 0 /\ d = None
    /\ m = 0 /\ cyphertext = Big(0) /\ mRx = Big(0)

NextPrime == IsPrime \/ MillerRound

SpecPrime == InitPrime /\ [][NextPrime]_vars

IsPrimeNumber(x) == x >= 2 /\ \A g \in 2..(x - 1) : x % g # 0
IsComposite(x) == x >= 4 /\ \E g \in 2..(x - 1) : x % g = 0

\* the number of times 2 divides x > 0
RECURSIVE TwoPower(_)
TwoPower(x) == IF x % 2 = 0 THEN 1 + TwoPower(x \div 2) ELSE 0

\* w is a strong liar of the odd x: with x - 1 = t * 2^s, t odd,
\* w^t = 1 or w^(t * 2^r) = -1 (mod x) for some r < s
StrongLiar(w, x) ==
    LET s == TwoPower(x - 1)
        t == (x - 1) \div 2^s
    IN  /\ x % 2 = 1
        /\ w \in 2..(x - 2)
        /\ \/ PowMod(w, t, x) = 1
           \/ \E r \in 0..(s - 1) : PowMod(w, t * 2^r, x) = x - 1

\* C6: whenever IsPrime(n) returns False, n is not prime: whatever witnesses
\* the rounds draw, a prime is never rejected.
C6_NoFalseNegative ==
    (pc = "ret" /\ ~res) => ~IsPrimeNumber(cand)

\* a prime above 3 accepted after all its rounds
C6_Witness ==
    pc = "ret" /\ res /\ IsPrimeNumber(cand) /\ cand > 3 /\ i = k /\ a > 2

\* C7 as stated: IsPrime(n) returns False for every composite n, whatever
\* witnesses its rounds draw.
C7_CompositeRejected ==
    (pc = "ret" /\ IsComposite(cand)) => ~res

\* C7 amended: on a composite n a round passes only on a strong liar of n, so
\* IsPrime(n) returns True only if every round drew one, and a composite with
\* no strong liar in [2, n-2] is rejected whatever the witnesses.
C7_OnlyLiarsPass ==
    /\ (IsComposite(cand) /\ ((pc = "round" /\ i >= 1) \/ (pc = "ret" /\ res)))
           => StrongLiar(a, cand)
    /\ (IsComposite(cand) /\ pc = "ret" /\ \A w \in 2..(cand - 2) : ~StrongLiar(w, cand))
           => ~res

\* the composite 25 accepted: its 4 rounds drew the strong liars 7 or 18
C7_Witness ==
    pc = "ret" /\ res /\ cand = 25 /\ i = k /\ a \in {7, 18}

----------------------------------------------------------------------------
(* eea on its own: a in 0..MaxA, u in 2..MaxU *)

InitEea ==
    /\ rand = {}
    /\ pc = "eea"
    /\ ctx = "eea"
    /\ e \in 0..MaxA
    /\ u \in {Big(x) : x \in 2..MaxU}
    /\ d = None
    /\ keySize = 0 /\ nBits = 0 /\ first = 0 /\ cand = 0
    /\ k = 0 /\ dd = 0 /\ i = 0 /\ a = 0 /\ res = FALSE
    /\ p = 0 /\ q = 0 /\ n = Big(0)
    /\ m = 0 /\ cyphertext = Big(0) /\ mRx = Big(0)

\* d = eea(e, u)
eeaCall ==
    /\ pc = "eea"
    /\ d' = eea(Big(e), u)
    /\ pc' = "done"
    /\ UNCHANGED <<rand, ctx, keySize, nBits, first, cand, k, dd, i, a, res, p, q, n, u, e,
                   m, cyphertext, mRx>>

NextEea == eeaCall

SpecEea == InitEea /\ [][NextEea]_vars

\* the greatest common divisor, from the divisors
Gcd(x, y) ==
    LET cds == {g \in 1..Max(x, y) : x % g = 0 /\ y % g = 0}
    IN  CHOOSE g \in cds : \A h \in cds : h <= g

\* C2: for a >= 0 and u > 1, eea(a, u) returns x with 0 <= x < u and
\* (a * x) mod u == 1 when gcd(a, u) == 1, and None otherwise.
C2_InverseCorrect ==
    pc = "done" =>
        IF Gcd(e, BigToInt(u)) = 1
        THEN /\ d # None
             /\ ~d[1].neg
             /\ BigLess(d[1], u)
             /\ (e * BigToInt(d[1])) % BigToInt(u) = 1
        ELSE d = None

\* an inverse returned where a > u and Euclid's coefficient came out negative
C2_Witness ==
    /\ pc = "done"
    /\ d # None
    /\ e > BigToInt(u)
    /\ EeaRun(Big(e), u).cd[1][1].neg

----------------------------------------------------------------------------
(* RSAmaths.py: the worked example, for the script's p = 97 and for p = 199 *)

MathsMsgs == (1..MaxMathsMsg) \cup {1165, 6789}

InitMaths ==
    /\ rand = {}
    /\ pc = "maths"
    /\ ctx = "maths"
    /\ p \in {97, 199}
    /\ q = 233
    /\ e = 17
    /\ m \in MathsMsgs
    /\ n = Big(0) /\ u = Big(0) /\ d = None
    /\ cyphertext = Big(0) /\ mRx = Big(0)
    /\ keySize = 0 /\ nBits = 0 /\ first = 0 /\ cand = 0
    /\ k = 0 /\ dd = 0 /\ i = 0 /\ a = 0 /\ res = FALSE

\* n = p*q; u = (p-1)*(q-1); assert u % e != 0
mathsKey ==
    /\ pc = "maths"
    /\ n' = BigMul(Big(p), Big(q))
    /\ u' = BigMul(Big(p - 1), Big(q - 1))
    /\ pc' = IF BigMod(u', Big(e)) # Big(0) THEN "inverse" ELSE "AssertionError"
    /\ UNCHANGED <<rand, ctx, keySize, nBits, first, cand, k, dd, i, a, res, p, q, e, d,
                   m, cyphertext, mRx>>

\* d = pow(e, -1, u), the inverse eea computes; assert e*d % u == 1
mathsInverse ==
    /\ pc = "inverse"
    /\ d' = eea(Big(e), u)
    /\ pc' = IF d' = None THEN "ValueError"
             ELSE IF BigMod(BigMul(Big(e), d'[1]), u) = Big(1) THEN "encrypt"
             ELSE "AssertionError"
    /\ UNCHANGED <<rand, ctx, keySize, nBits, first, cand, k, dd, i, a, res, p, q, n, u, e,
                   m, cyphertext, mRx>>

\* assert m < n-1; cyphertext = m**e % n
mathsEncrypt ==
    /\ pc = "encrypt"
    /\ IF BigLess(Big(m), BigSub(n, Big(1)))
       THEN /\ cyphertext' = BigPow(Big(m), Big(e), n)
            /\ pc' = "decrypt"
       ELSE /\ cyphertext' = cyphertext
            /\ pc' = "AssertionError"
    /\ UNCHANGED <<rand, ctx, keySize, nBits, first, cand, k, dd, i, a, res, p, q, n, u, e, d,
                   m, mRx>>

\* mRx = cyphertext**d % n; assert mRx == m
mathsDecrypt ==
    /\ pc = "decrypt"
    /\ mRx' = BigPow(cyphertext, d[1], n)
    /\ pc' = IF mRx' = Big(m) THEN "done" ELSE "AssertionError"
    /\ UNCHANGED <<rand, ctx, keySize, nBits, first, cand, k, dd, i, a, res, p, q, n, u, e, d,
                   m, cyphertext>>

NextMaths == mathsKey \/ mathsInverse \/ mathsEncrypt \/ mathsDecrypt

SpecMaths == InitMaths /\ [][NextMaths]_vars

\* C8 as stated: with p=199, q=233, e=17: n=46367, u=45936, the inverse of e
\* modulo u is d=8105, (17*8105) mod 45936 == 1, and for m=6789
\* pow(cyphertext, 8105, 46367) gives 6789 back.
C8_Scenario ==
    (p = 199 /\ pc \notin {"maths", "inverse"}) =>
        /\ n = Big(46367)
        /\ u = Big(45936)
        /\ d = Some(Big(8105))
        /\ (17 * 8105) % 45936 = 1
        /\ (m = 6789 /\ pc = "done") =>
               BigPow(cyphertext, Big(8105), Big(46367)) = Big(6789)

\* C8 amended: with p=199, q=233, e=17: n=46367, u=45936, the inverse of e
\* modulo u is d=21617, (17*d) mod 45936 == 1, and for m=6789 the cyphertext
\* pow(6789, 17, 46367) decrypted with d gives 6789 back.
C8_ScenarioAmended ==
    (p = 199 /\ pc \notin {"maths", "inverse"}) =>
        /\ n = Big(46367)
        /\ u = Big(45936)
        /\ d = Some(Big(21617))
        /\ (17 * BigToInt(d[1])) % 45936 = 1
        /\ m = 6789 =>
               /\ pc # "AssertionError"
               /\ pc \in {"decrypt", "done"} =>
                      cyphertext = BigPow(Big(6789), Big(17), Big(46367))
               /\ pc = "done" => mRx = Big(6789)

\* the scenario run to its end
C8_Witness ==
    p = 199 /\ q = 233 /\ e = 17 /\ m = 6789 /\ pc = "done" /\ mRx = Big(6789)

====
